---- MODULE Spec2Model ----
(***************************************************************************)
(* A model of pyoption: the Option / OptionPortfolio algebra of            *)
(* pyoption/classes.py and the pricing entry points of                     *)
(* pyoption/pricing/gbs.py.                                                *)
(*                                                                         *)
(* Three specifications share the module:                                  *)
(*   Spec     the instrument algebra (a heap of mutable OptionPortfolio    *)
(*            objects and the operators applied to them),                  *)
(*   SpecEq   Option.__hash__ / Option.__eq__ applied to pairs of Options, *)
(*   SpecGBS  the pricing functions and the implied-volatility solver.     *)
(***************************************************************************)
EXTENDS Integers, Sequences, FiniteSets

VARIABLES heap, last, net, cmp, call

vars == <<heap, last, net, cmp, call>>

(***************************************************************************)
(* Numbers.  Python integers are unbounded and CPython hashes an integer   *)
(* modulo the Mersenne prime 2^61 - 1 (sys.hash_info.modulus), which is    *)
(* beyond the integers TLC can hold.  A number is therefore kept as the    *)
(* pair hi, lo standing for hi * (2^61 - 1) + lo, with |lo| far below the  *)
(* modulus: sums, differences, products with a small integer and           *)
(* comparisons with zero are exact on the pairs.                           *)
(***************************************************************************)
Num(h, l) == [hi |-> h, lo |-> l]

Zero == Num(0, 0)

NumSub(x, y) == Num(x.hi - y.hi, x.lo - y.lo)

NumAdd(x, y) == Num(x.hi + y.hi, x.lo + y.lo)

NumScale(x, n) == Num(x.hi * n, x.lo * n)

NumLess(x, y) == x.hi < y.hi \/ (x.hi = y.hi /\ x.lo < y.lo)

\* Python's max(x, 0)
Max0(x) == IF NumLess(x, Zero) THEN Zero ELSE x

(***************************************************************************)
(* Options (classes.py:17-79).  An Option is immutable, so it is modelled  *)
(* by its fields.                                                          *)
(***************************************************************************)
NoneValue == "None"

\* time_to_expiration is optional: <<>> is None, <<t>> is t years
NoTime == <<>>

MkOption(ty, k, ex, tte) ==
    [option_type |-> ty, exercise_price |-> k, exercise_type |-> ex,
     time_to_expiration |-> tte]

CallOption(k, ex, tte) == MkOption("CALL", k, ex, tte)

PutOption(k, ex, tte) == MkOption("PUT", k, ex, tte)

\* hash() of a non-negative Python int: the value modulo 2^61 - 1
PyHashInt(n) == n.lo

\* hash() of an Enum member is the hash of its name; distinct names are
\* taken to hash apart
PyHashEnum(e) == e

\* hash() of a tuple is a function of the hashes of its items
PyHashTuple(t) == [i \in DOMAIN t |-> t[i]]

\* Option.__hash__
OptionHash(o) ==
    PyHashTuple(<<PyHashEnum(o.option_type), PyHashInt(o.exercise_price),
                  PyHashEnum(o.exercise_type)>>)

\* Option.__eq__
OptionEq(a, b) == OptionHash(a) = OptionHash(b)

\* Option.value; the ValueError branch needs an option_type that is neither
\* CALL nor PUT, which no constructor produces
OptionValue(o, spot_price) ==
    IF o.option_type = "CALL" THEN Max0(NumSub(spot_price, o.exercise_price))
    ELSE IF o.option_type = "PUT" THEN Max0(NumSub(o.exercise_price, spot_price))
    ELSE [hi |-> "ValueError", lo |-> "ValueError"]

(***************************************************************************)
(* The options dict of an OptionPortfolio: a function from the stored key  *)
(* objects to quantities.  Python finds a key by hash and __eq__, so no    *)
(* two stored keys are OptionEq, and assigning to a key that is already    *)
(* present keeps the stored key object.                                    *)
(***************************************************************************)
EmptyDict == [k \in {} |-> 0]

DictHas(d, o) == \E k \in DOMAIN d : OptionEq(k, o)

DictKey(d, o) == CHOOSE k \in DOMAIN d : OptionEq(k, o)

\* d.get(o, dflt)
DictGet(d, o, dflt) == IF DictHas(d, o) THEN d[DictKey(d, o)] ELSE dflt

\* d[o] = v
DictSet(d, o, v) ==
    IF DictHas(d, o) THEN [d EXCEPT ![DictKey(d, o)] = v]
    ELSE [k \in DOMAIN d \cup {o} |-> IF k = o THEN v ELSE d[k]]

\* {opt: cnt for opt, cnt in options}
RECURSIVE DictFromList(_)
DictFromList(options) ==
    IF options = <<>> THEN EmptyDict
    ELSE LET n == Len(options)
         IN  DictSet(DictFromList(SubSeq(options, 1, n - 1)),
                     options[n][1], options[n][2])

\* set(d1.keys()) | set(d2.keys()): the left set's elements are kept
KeyUnion(d1, d2) ==
    DOMAIN d1 \cup {k \in DOMAIN d2 : ~ DictHas(d1, k)}

(***************************************************************************)
(* The heap of OptionPortfolio objects.  Portfolios are mutable and their  *)
(* operators return the receiver, so object identity matters: a portfolio  *)
(* value is a reference into the heap.                                     *)
(***************************************************************************)
PortfolioIds == {"p1", "p2"}

Unallocated == [alive |-> FALSE, options |-> EmptyDict]

OptRef(o) == [kind |-> "Option", val |-> o]

PfRef(p) == [kind |-> "Portfolio", val |-> p]

NumVal(x) == [kind |-> "Num", val |-> x]

IntVal(n) == [kind |-> "Int", val |-> n]

NoneRef == [kind |-> "None", val |-> NoneValue]

IsOption(x) == x.kind = "Option"

IsPortfolio(x) == x.kind = "Portfolio"

\* the outcome of evaluating an operator: the heap after it, what it
\* returned and the exception it raised (NoneValue when it returned)
Outcome(h, r, e) == [heap |-> h, ret |-> r, err |-> e]

\* the identity of a newly constructed object: any one not in use
FreeId(h) == CHOOSE p \in PortfolioIds : ~ h[p].alive

HasFree(h) == \E p \in PortfolioIds : ~ h[p].alive

\* OptionPortfolio.__init__
PortfolioInit(h, options) ==
    LET p == FreeId(h)
    IN  Outcome([h EXCEPT ![p] = [alive |-> TRUE,
                                  options |-> DictFromList(options)]],
                PfRef(p), NoneValue)

\* the loop of OptionPortfolio.__mul__ and __neg__ over self.options.keys()
ScaleDict(d, n) == [k \in DOMAIN d |-> d[k] * n]

\* OptionPortfolio.__mul__
PortfolioMul(h, p, n) ==
    Outcome([h EXCEPT ![p].options = ScaleDict(@, n)], PfRef(p), NoneValue)

\* OptionPortfolio.__neg__
PortfolioNeg(h, p) ==
    Outcome([h EXCEPT ![p].options = ScaleDict(@, -1)], PfRef(p), NoneValue)

\* the loop of OptionPortfolio.__add__ / __sub__ over the union of the key
\* sets; sign is 1 for __add__ and -1 for __sub__.  self.options is written
\* while other.options is read, and other may be self.
RECURSIVE MergeLoop(_, _, _, _, _)
MergeLoop(h, p, q, todo, sign) ==
    IF todo = {} THEN h
    ELSE LET opt == CHOOSE o \in todo : TRUE
             v == DictGet(h[p].options, opt, 0)
                    + sign * DictGet(h[q].options, opt, 0)
         IN  MergeLoop([h EXCEPT ![p].options = DictSet(@, opt, v)],
                       p, q, todo \ {opt}, sign)

\* __add__ that stores 1 for an Option operand instead of incrementing
PortfolioAddOverwrite(h, p, other) ==
    IF IsOption(other) THEN
        Outcome([h EXCEPT ![p].options = DictSet(@, other.val, 1)],
                PfRef(p), NoneValue)
    ELSE IF IsPortfolio(other) THEN
        Outcome(MergeLoop(h, p, other.val,
                          KeyUnion(h[p].options, h[other.val].options), 1),
                PfRef(p), NoneValue)
    ELSE Outcome(h, NoneRef, "ValueError")

\* OptionPortfolio.__add__
PortfolioAdd(h, p, other) ==
    IF IsOption(other) THEN
        Outcome([h EXCEPT ![p].options =
                    DictSet(@, other.val, DictGet(@, other.val, 0) + 1)],
                PfRef(p), NoneValue)
    ELSE IF IsPortfolio(other) THEN
        Outcome(MergeLoop(h, p, other.val,
                          KeyUnion(h[p].options, h[other.val].options), 1),
                PfRef(p), NoneValue)
    ELSE Outcome(h, NoneRef, "ValueError")

\* __sub__ that clears the receiver before it rejects the operand
PortfolioSubClearing(h, p, other) ==
    IF IsOption(other) THEN
        Outcome([h EXCEPT ![p].options =
                    DictSet(@, other.val, DictGet(@, other.val, 0) - 1)],
                PfRef(p), NoneValue)
    ELSE IF IsPortfolio(other) THEN
        Outcome(MergeLoop(h, p, other.val,
                          KeyUnion(h[p].options, h[other.val].options), -1),
                PfRef(p), NoneValue)
    ELSE Outcome([h EXCEPT ![p].options = EmptyDict], NoneRef, "ValueError")

\* OptionPortfolio.__sub__
PortfolioSub(h, p, other) ==
    IF IsOption(other) THEN
        Outcome([h EXCEPT ![p].options =
                    DictSet(@, other.val, DictGet(@, other.val, 0) - 1)],
                PfRef(p), NoneValue)
    ELSE IF IsPortfolio(other) THEN
        Outcome(MergeLoop(h, p, other.val,
                          KeyUnion(h[p].options, h[other.val].options), -1),
                PfRef(p), NoneValue)
    ELSE Outcome(h, NoneRef, "ValueError")

\* sum(opt.value(spot_price) * cnt for opt, cnt in self.options.items())
RECURSIVE SumItems(_, _, _)
SumItems(d, keys, spot_price) ==
    IF keys = {} THEN Zero
    ELSE LET opt == CHOOSE k \in keys : TRUE
         IN  NumAdd(NumScale(OptionValue(opt, spot_price), d[opt]),
                    SumItems(d, keys \ {opt}, spot_price))

\* value that forgets the quantities
PortfolioValueUnweighted(h, p, spot_price) ==
    SumItems([k \in DOMAIN h[p].options |-> 1], DOMAIN h[p].options, spot_price)

\* OptionPortfolio.value
PortfolioValue(h, p, spot_price) ==
    SumItems(h[p].options, DOMAIN h[p].options, spot_price)

\* Option.__mul__ (and __rmul__)
OptionMul(h, o, n) == PortfolioInit(h, <<<<o, n>>>>)

\* Option.__neg__
OptionNeg(h, o) == PortfolioInit(h, <<<<o, -1>>>>)

\* Option.__add__; with any other operand the method falls off its end and
\* returns None
OptionAdd(h, o, other) ==
    IF IsOption(other) THEN PortfolioInit(h, <<<<o, 1>>, <<other.val, 1>>>>)
    ELSE IF IsPortfolio(other) THEN PortfolioAdd(h, other.val, OptRef(o))
    ELSE Outcome(h, NoneRef, NoneValue)

\* Option.__sub__
OptionSub(h, o, other) ==
    IF IsOption(other) THEN PortfolioInit(h, <<<<o, 1>>, <<other.val, -1>>>>)
    ELSE IF IsPortfolio(other) THEN
        PortfolioNeg(PortfolioSub(h, other.val, OptRef(o)).heap, other.val)
    ELSE Outcome(h, NoneRef, NoneValue)

(***************************************************************************)
(* Operator dispatch: x + y and x - y call the method of x's class, as in  *)
(* the expressions of the module's __main__ block.                         *)
(***************************************************************************)
BinaryAdd(h, x, y) ==
    IF IsOption(x) THEN OptionAdd(h, x.val, y) ELSE PortfolioAdd(h, x.val, y)

BinarySub(h, x, y) ==
    IF IsOption(x) THEN OptionSub(h, x.val, y) ELSE PortfolioSub(h, x.val, y)

\* (a + b) - b
AddThenSub(h, a, b) ==
    LET first == BinaryAdd(h, a, b)
    IN  BinarySub(first.heap, first.ret, b)

(***************************************************************************)
(* Bounds and input sets of the algebra.                                   *)
(***************************************************************************)
\* quantities are kept within -MaxQty .. MaxQty
MaxQty == 2

\* strikes 1, 2 and 2^61 = (2^61 - 1) + 1
Legs ==
    { CallOption(Num(0, 1), "EUROPEAN", NoTime),
      CallOption(Num(1, 1), "EUROPEAN", NoTime),
      PutOption(Num(0, 2), "EUROPEAN", NoTime) }

\* spot prices 0, 3 and 2^61 + 3
Spots == { Num(0, 0), Num(0, 3), Num(1, 4) }

Multipliers == { -1, 0, 2 }

OptionOperands == { OptRef(o) : o \in Legs }

PortfolioOperands(h) == { PfRef(p) : p \in { q \in PortfolioIds : h[q].alive } }

\* operands that are neither an Option nor an OptionPortfolio
OtherOperands == { IntVal(5) }

WithinBounds(h) ==
    \A p \in PortfolioIds : \A k \in DOMAIN h[p].options :
        h[p].options[k] \in -MaxQty .. MaxQty

\* the quantity a portfolio holds of o (0 when o is no leg of it)
Qty(h, p, o) == DictGet(h[p].options, o, 0)

Quantities(h) == [p \in PortfolioIds |-> [o \in Legs |-> Qty(h, p, o)]]

(***************************************************************************)
(* State.  heap holds the OptionPortfolio objects; last records the        *)
(* operation just evaluated, its operands, the heap before it and its      *)
(* outcome; net is the running signed sum, per portfolio and leg, of what  *)
(* __add__ and __sub__ were asked to contribute since the portfolio was    *)
(* last built, scaled or negated.                                          *)
(***************************************************************************)
NoCall == [op |-> "none"]

NoCmp == [done |-> FALSE]

AlgebraIdle == cmp = NoCmp /\ call = NoCall

Init ==
    /\ heap = [p \in PortfolioIds |-> Unallocated]
    /\ last = [op |-> "idle", x |-> NoneRef, y |-> NoneRef, pre |-> heap,
               ret |-> NoneRef, err |-> NoneValue]
    /\ net = Quantities(heap)
    /\ AlgebraIdle

\* what an Option or OptionPortfolio operand contributes to leg o
Contribution(h, other, o) ==
    IF IsOption(other) THEN (IF OptionEq(other.val, o) THEN 1 ELSE 0)
    ELSE IF IsPortfolio(other) THEN Qty(h, other.val, o)
    ELSE 0

\* one operator evaluation by the caller: the statement starts with no call
\* in flight, and leaves the call's record for the caller to read
Step(op, x, y, out, newnet) ==
    /\ last.op = "idle"
    /\ WithinBounds(out.heap)
    /\ heap' = out.heap
    /\ last' = [op |-> op, x |-> x, y |-> y, pre |-> heap,
                ret |-> out.ret, err |-> out.err]
    /\ net' = newnet
    /\ UNCHANGED <<cmp, call>>

\* o * n
DoOptionMul ==
    \E o \in Legs, n \in Multipliers :
        /\ HasFree(heap)
        /\ LET out == OptionMul(heap, o, n)
           IN  Step("Option.__mul__", OptRef(o), IntVal(n), out,
                    Quantities(out.heap))

\* -o
DoOptionNeg ==
    \E o \in Legs :
        /\ HasFree(heap)
        /\ LET out == OptionNeg(heap, o)
           IN  Step("Option.__neg__", OptRef(o), NoneRef, out,
                    Quantities(out.heap))

\* o + other
DoOptionAdd ==
    \E o \in Legs,
       other \in OptionOperands \cup PortfolioOperands(heap) \cup OtherOperands :
        /\ IsOption(other) => HasFree(heap)
        /\ LET out == OptionAdd(heap, o, other)
           IN  Step("Option.__add__", OptRef(o), other, out,
                    IF IsPortfolio(other)
                    THEN [net EXCEPT ![other.val] =
                            [k \in Legs |-> @[k] + Contribution(heap, OptRef(o), k)]]
                    ELSE Quantities(out.heap))

\* o - other
DoOptionSub ==
    \E o \in Legs,
       other \in OptionOperands \cup PortfolioOperands(heap) \cup OtherOperands :
        /\ IsOption(other) => HasFree(heap)
        /\ LET out == OptionSub(heap, o, other)
           IN  Step("Option.__sub__", OptRef(o), other, out, Quantities(out.heap))

\* o.value(spot_price)
DoOptionValue ==
    \E o \in Legs, s \in Spots :
        Step("Option.value", OptRef(o), NumVal(s),
             Outcome(heap, NumVal(OptionValue(o, s)), NoneValue), net)

\* p * n
DoPortfolioMul ==
    \E x \in PortfolioOperands(heap), n \in Multipliers :
        LET out == PortfolioMul(heap, x.val, n)
        IN  Step("OptionPortfolio.__mul__", x, IntVal(n), out, Quantities(out.heap))

\* -p
DoPortfolioNeg ==
    \E x \in PortfolioOperands(heap) :
        LET out == PortfolioNeg(heap, x.val)
        IN  Step("OptionPortfolio.__neg__", x, NoneRef, out, Quantities(out.heap))

\* p + other
DoPortfolioAdd ==
    \E x \in PortfolioOperands(heap),
       other \in OptionOperands \cup PortfolioOperands(heap) \cup OtherOperands :
        LET out == PortfolioAdd(heap, x.val, other)
        IN  Step("OptionPortfolio.__add__", x, other, out,
                 [net EXCEPT ![x.val] =
                    [k \in Legs |-> @[k] + Contribution(heap, other, k)]])

\* p - other
DoPortfolioSub ==
    \E x \in PortfolioOperands(heap),
       other \in OptionOperands \cup PortfolioOperands(heap) \cup OtherOperands :
        LET out == PortfolioSub(heap, x.val, other)
        IN  Step("OptionPortfolio.__sub__", x, other, out,
                 [net EXCEPT ![x.val] =
                    [k \in Legs |-> @[k] - Contribution(heap, other, k)]])

\* p.value(spot_price)
DoPortfolioValue ==
    \E x \in PortfolioOperands(heap), s \in Spots :
        Step("OptionPortfolio.value", x, NumVal(s),
             Outcome(heap, NumVal(PortfolioValue(heap, x.val, s)), NoneValue), net)

\* (a + b) - b
DoAddThenSub ==
    \E a \in OptionOperands \cup PortfolioOperands(heap),
       b \in OptionOperands \cup PortfolioOperands(heap) :
        /\ (IsOption(a) /\ IsOption(b)) => HasFree(heap)
        /\ LET out == AddThenSub(heap, a, b)
           IN  Step("(a + b) - b", a, b, out, Quantities(out.heap))

\* the caller has read the result and moves on to its next statement
NextStatement ==
    /\ last.op # "idle"
    /\ last' = [op |-> "idle", x |-> NoneRef, y |-> NoneRef, pre |-> heap,
                ret |-> NoneRef, err |-> NoneValue]
    /\ UNCHANGED <<heap, net, cmp, call>>

Next ==
    \/ NextStatement
    \/ DoOptionMul
    \/ DoOptionNeg
    \/ DoOptionAdd
    \/ DoOptionSub
    \/ DoOptionValue
    \/ DoPortfolioMul
    \/ DoPortfolioNeg
    \/ DoPortfolioAdd
    \/ DoPortfolioSub
    \/ DoPortfolioValue
    \/ DoAddThenSub

Spec == Init /\ [][Next]_vars

(***************************************************************************)
(* SpecEq: Option.__eq__ and Option.__hash__ on pairs of Options, and the  *)
(* dict built from the two of them.                                        *)
(***************************************************************************)
\* strikes 1, 2 and 2^61
Strikes == { Num(0, 1), Num(0, 2), Num(1, 1) }

OptionUniverse ==
    { MkOption(ty, k, ex, tte) :
        ty \in {"CALL", "PUT"}, k \in Strikes,
        ex \in {"EUROPEAN", "AMERICAN"}, tte \in {NoTime, <<1>>} }

\* a == b, and OptionPortfolio([(a, 1), (b, 1)]).options
DoOptionEq ==
    \E a \in OptionUniverse, b \in OptionUniverse :
        /\ cmp' = [done |-> TRUE, a |-> a, b |-> b,
                   eq |-> OptionEq(a, b),
                   options |-> DictFromList(<<<<a, 1>>, <<b, 1>>>>)]
        /\ UNCHANGED <<heap, last, net, call>>

NextEq == DoOptionEq

SpecEq == Init /\ [][NextEq]_vars

(***************************************************************************)
(* Claims about the algebra (specification Spec).                          *)
(***************************************************************************)
\* agreement on (option_type, exercise_price, exercise_type)
SameIdentity(a, b) ==
    /\ a.option_type = b.option_type
    /\ a.exercise_price = b.exercise_price
    /\ a.exercise_type = b.exercise_type

\* max(s - strike, 0) for a CALL, max(strike - s, 0) for a PUT
Payoff(o, s) ==
    LET k == o.exercise_price
        d == IF o.option_type = "CALL" THEN NumSub(s, k) ELSE NumSub(k, s)
    IN  IF d.hi > 0 \/ (d.hi = 0 /\ d.lo > 0) THEN d ELSE Zero

\* the sum over the legs of d of quantity * payoff
RECURSIVE LegSum(_, _, _)
LegSum(d, legs, s) ==
    IF legs = {} THEN Zero
    ELSE LET o == CHOOSE k \in legs : TRUE
             rest == LegSum(d, legs \ {o}, s)
             term == Payoff(o, s)
         IN  IF o \in DOMAIN d
             THEN Num(rest.hi + d[o] * term.hi, rest.lo + d[o] * term.lo)
             ELSE rest

IsCall(op) == last.op = op /\ last.err = NoneValue

\* C1: for Options a and b that agree on option_type, exercise_price and
\* exercise_type, a + b is a one-leg Portfolio of quantity 2 and a - b a
\* one-leg Portfolio of quantity 0 that values to 0 at every spot.
C1_EqualOptionsMerge ==
    \A op \in {"Option.__add__", "Option.__sub__"} :
        (/\ IsCall(op)
         /\ last.y.kind = "Option"
         /\ SameIdentity(last.x.val, last.y.val))
        => /\ last.ret.kind = "Portfolio"
           /\ LET d == heap[last.ret.val].options
              IN  /\ Cardinality(DOMAIN d) = 1
                  /\ DictGet(d, last.x.val, 0)
                       = (IF op = "Option.__add__" THEN 2 ELSE 0)
                  /\ op = "Option.__sub__" =>
                        \A s \in Spots :
                            PortfolioValue(heap, last.ret.val, s) = Zero

\* the value at spot s of an operand as it stood in heap h
OperandValue(h, a, s) ==
    IF IsOption(a) THEN OptionValue(a.val, s) ELSE PortfolioValue(h, a.val, s)

\* C2: (a + b) - b has, for every leg, the net quantity a had before the
\* expression was evaluated, and the value a had at every spot.
C2_AddThenSubRestores ==
    IsCall("(a + b) - b")
    => /\ last.ret.kind = "Portfolio"
       /\ \A o \in Legs :
            Qty(heap, last.ret.val, o) = Contribution(last.pre, last.x, o)
       /\ \A s \in Spots :
            PortfolioValue(heap, last.ret.val, s) = OperandValue(last.pre, last.x, s)

C7_ValueIsLegSum ==
    /\ IsCall("OptionPortfolio.value")
         => last.ret.val = LegSum(heap[last.x.val].options, Legs, last.y.val)
    /\ IsCall("Option.value")
         => last.ret.val = Payoff(last.x.val, last.y.val)

\* a portfolio with a short leg and a zero-quantity leg was valued, and the
\* value is not zero
C7_Witness ==
    /\ IsCall("OptionPortfolio.value")
    /\ LET d == heap[last.x.val].options
       IN  \E k1 \in DOMAIN d, k2 \in DOMAIN d : d[k1] < 0 /\ d[k2] = 0
    /\ last.ret.val # Zero

\* C9: o + P holds P0(o) + 1 of o and P0(leg) of every other leg, o - P holds
\* 1 - P0(o) of o and -P0(leg) of every other leg, and the result values to
\* o.value(s) + P0.value(s), respectively o.value(s) - P0.value(s).
C9_OptionWithPortfolio ==
    \A op \in {"Option.__add__", "Option.__sub__"} :
        (IsCall(op) /\ last.y.kind = "Portfolio")
        => LET o == last.x.val
               P == last.y.val
               own(k) == IF OptionEq(o, k) THEN 1 ELSE 0
           IN  /\ last.ret.kind = "Portfolio"
               /\ \A k \in Legs :
                    Qty(heap, last.ret.val, k)
                      = IF op = "Option.__add__"
                        THEN Qty(last.pre, P, k) + own(k)
                        ELSE own(k) - Qty(last.pre, P, k)
               /\ \A s \in Spots :
                    PortfolioValue(heap, last.ret.val, s)
                      = IF op = "Option.__add__"
                        THEN NumAdd(OptionValue(o, s), PortfolioValue(last.pre, P, s))
                        ELSE NumSub(OptionValue(o, s), PortfolioValue(last.pre, P, s))

\* C10: Portfolio + and - with an operand that is neither an Option nor an
\* OptionPortfolio fail, and leave the receiver's legs and quantities as
\* they were.
C10_BadOperandRejected ==
    \A op \in {"OptionPortfolio.__add__", "OptionPortfolio.__sub__"} :
        (last.op = op /\ last.y.kind \notin {"Option", "Portfolio"})
        => /\ last.err = "ValueError"
           /\ heap = last.pre

\* a Portfolio with a non-zero leg was asked to subtract an integer
C10_Witness ==
    /\ last.op = "OptionPortfolio.__sub__"
    /\ last.y.kind = "Int"
    /\ \E k \in DOMAIN last.pre[last.x.val].options :
         last.pre[last.x.val].options[k] # 0

(***************************************************************************)
(* Claims about Option equality (specification SpecEq).                    *)
(***************************************************************************)
\* C5: o1 == o2 exactly when the two agree on option_type, exercise_price
\* and exercise_type, whatever their time_to_expiration; Options that differ
\* in one of the three are never equal and never share a Portfolio leg.
C5_EqualIffSameIdentity ==
    cmp.done
    => /\ cmp.eq <=> SameIdentity(cmp.a, cmp.b)
       /\ ~ SameIdentity(cmp.a, cmp.b) => Cardinality(DOMAIN cmp.options) = 2

(***************************************************************************)
(* The pricing engine (pricing/gbs.py).  Reals are kept in fixed point:    *)
(* rates in units of 0.01, volatilities in units of 0.001 and prices in    *)
(* units of 0.0001.  The market of every call is fs = 100, x = 100, t = 1, *)
(* r = 0.05; the cost of carry b is 0.05 or 0.                             *)
(***************************************************************************)
Market == [fs |-> 100, x |-> 100, t |-> 1, r |-> 5]

\* the put value of lines 39-43 at b = 0.05, for v = 0.010, 0.011, .. 1.000
PutValuesCarry5 ==
    <<
       0, 0, 0, 0, 1, 2, 4, 8, 14, 25, 39, 59,
       85, 118, 159, 207, 264, 330, 404, 488, 580, 682, 792, 911,
       1039, 1175, 1319, 1471, 1631, 1799, 1973, 2155, 2343, 2538, 2739, 2946,
       3158, 3376, 3600, 3829, 4062, 4300, 4543, 4790, 5042, 5297, 5556, 5819,
       6086, 6355, 6629, 6905, 7185, 7467, 7752, 8040, 8331, 8624, 8919, 9217,
       9517, 9820, 10124, 10431, 10739, 11050, 11362, 11676, 11992, 12309, 12628, 12949,
       13271, 13594, 13919, 14246, 14573, 14902, 15232, 15564, 15896, 16230, 16565, 16901,
       17238, 17575, 17914, 18254, 18595, 18936, 19279, 19622, 19967, 20312, 20657, 21004,
       21351, 21699, 22048, 22397, 22747, 23098, 23449, 23801, 24154, 24507, 24861, 25215,
       25570, 25925, 26281, 26637, 26994, 27351, 27709, 28067, 28426, 28785, 29145, 29505,
       29865, 30226, 30587, 30949, 31311, 31673, 32036, 32399, 32762, 33126, 33490, 33854,
       34218, 34583, 34949, 35314, 35680, 36046, 36412, 36779, 37146, 37513, 37881, 38248,
       38616, 38984, 39353, 39721, 40090, 40459, 40828, 41198, 41568, 41937, 42307, 42678,
       43048, 43419, 43790, 44161, 44532, 44903, 45275, 45647, 46018, 46390, 46763, 47135,
       47507, 47880, 48253, 48626, 48999, 49372, 49745, 50119, 50492, 50866, 51240, 51614,
       51988, 52362, 52737, 53111, 53486, 53860, 54235, 54610, 54985, 55360, 55735, 56111,
       56486, 56861, 57237, 57613, 57988, 58364, 58740, 59116, 59492, 59868, 60245, 60621,
       60997, 61374, 61751, 62127, 62504, 62881, 63258, 63634, 64011, 64388, 64766, 65143,
       65520, 65897, 66275, 66652, 67030, 67407, 67785, 68162, 68540, 68918, 69296, 69673,
       70051, 70429, 70807, 71185, 71563, 71941, 72320, 72698, 73076, 73454, 73833, 74211,
       74589, 74968, 75346, 75725, 76103, 76482, 76861, 77239, 77618, 77997, 78375, 78754,
       79133, 79512, 79891, 80269, 80648, 81027, 81406, 81785, 82164, 82543, 82922, 83301,
       83680, 84059, 84439, 84818, 85197, 85576, 85955, 86334, 86714, 87093, 87472, 87851,
       88231, 88610, 88989, 89369, 89748, 90127, 90507, 90886, 91266, 91645, 92024, 92404,
       92783, 93163, 93542, 93921, 94301, 94680, 95060, 95439, 95819, 96198, 96578, 96957,
       97337, 97716, 98096, 98475, 98854, 99234, 99613, 99993, 100372, 100752, 101131, 101511,
       101890, 102270, 102649, 103029, 103408, 103788, 104167, 104547, 104926, 105306, 105685, 106064,
       106444, 106823, 107203, 107582, 107962, 108341, 108720, 109100, 109479, 109858, 110238, 110617,
       110996, 111376, 111755, 112134, 112514, 112893, 113272, 113652, 114031, 114410, 114789, 115168,
       115548, 115927, 116306, 116685, 117064, 117443, 117823, 118202, 118581, 118960, 119339, 119718,
       120097, 120476, 120855, 121234, 121613, 121992, 122371, 122750, 123128, 123507, 123886, 124265,
       124644, 125023, 125401, 125780, 126159, 126538, 126916, 127295, 127674, 128052, 128431, 128809,
       129188, 129567, 129945, 130324, 130702, 131081, 131459, 131837, 132216, 132594, 132972, 133351,
       133729, 134107, 134486, 134864, 135242, 135620, 135998, 136376, 136754, 137133, 137511, 137889,
       138267, 138645, 139022, 139400, 139778, 140156, 140534, 140912, 141289, 141667, 142045, 142423,
       142800, 143178, 143555, 143933, 144311, 144688, 145066, 145443, 145820, 146198, 146575, 146953,
       147330, 147707, 148084, 148462, 148839, 149216, 149593, 149970, 150347, 150724, 151101, 151478,
       151855, 152232, 152609, 152986, 153362, 153739, 154116, 154493, 154869, 155246, 155622, 155999,
       156375, 156752, 157128, 157505, 157881, 158257, 158634, 159010, 159386, 159763, 160139, 160515,
       160891, 161267, 161643, 162019, 162395, 162771, 163147, 163523, 163898, 164274, 164650, 165025,
       165401, 165777, 166152, 166528, 166903, 167279, 167654, 168030, 168405, 168780, 169155, 169531,
       169906, 170281, 170656, 171031, 171406, 171781, 172156, 172531, 172906, 173281, 173655, 174030,
       174405, 174780, 175154, 175529, 175903, 176278, 176652, 177027, 177401, 177775, 178150, 178524,
       178898, 179272, 179646, 180020, 180394, 180768, 181142, 181516, 181890, 182264, 182638, 183011,
       183385, 183759, 184132, 184506, 184879, 185253, 185626, 185999, 186373, 186746, 187119, 187492,
       187866, 188239, 188612, 188985, 189358, 189730, 190103, 190476, 190849, 191222, 191594, 191967,
       192340, 192712, 193085, 193457, 193829, 194202, 194574, 194946, 195318, 195691, 196063, 196435,
       196807, 197179, 197551, 197922, 198294, 198666, 199038, 199409, 199781, 200153, 200524, 200896,
       201267, 201638, 202010, 202381, 202752, 203123, 203494, 203865, 204236, 204607, 204978, 205349,
       205720, 206091, 206461, 206832, 207203, 207573, 207944, 208314, 208685, 209055, 209425, 209796,
       210166, 210536, 210906, 211276, 211646, 212016, 212386, 212756, 213125, 213495, 213865, 214234,
       214604, 214973, 215343, 215712, 216082, 216451, 216820, 217189, 217558, 217927, 218296, 218665,
       219034, 219403, 219772, 220141, 220509, 220878, 221247, 221615, 221984, 222352, 222720, 223089,
       223457, 223825, 224193, 224561, 224929, 225297, 225665, 226033, 226401, 226768, 227136, 227504,
       227871, 228239, 228606, 228974, 229341, 229708, 230075, 230443, 230810, 231177, 231544, 231911,
       232278, 232644, 233011, 233378, 233744, 234111, 234478, 234844, 235210, 235577, 235943, 236309,
       236675, 237041, 237408, 237774, 238139, 238505, 238871, 239237, 239603, 239968, 240334, 240699,
       241065, 241430, 241795, 242161, 242526, 242891, 243256, 243621, 243986, 244351, 244716, 245080,
       245445, 245810, 246174, 246539, 246903, 247268, 247632, 247996, 248361, 248725, 249089, 249453,
       249817, 250181, 250544, 250908, 251272, 251636, 251999, 252363, 252726, 253090, 253453, 253816,
       254179, 254542, 254906, 255269, 255631, 255994, 256357, 256720, 257083, 257445, 257808, 258170,
       258533, 258895, 259257, 259620, 259982, 260344, 260706, 261068, 261430, 261792, 262153, 262515,
       262877, 263238, 263600, 263961, 264323, 264684, 265045, 265406, 265767, 266128, 266489, 266850,
       267211, 267572, 267933, 268293, 268654, 269014, 269375, 269735, 270095, 270456, 270816, 271176,
       271536, 271896, 272256, 272616, 272975, 273335, 273695, 274054, 274414, 274773, 275133, 275492,
       275851, 276210, 276569, 276928, 277287, 277646, 278005, 278364, 278722, 279081, 279439, 279798,
       280156, 280514, 280873, 281231, 281589, 281947, 282305, 282663, 283021, 283378, 283736, 284094,
       284451, 284808, 285166, 285523, 285880, 286238, 286595, 286952, 287309, 287666, 288022, 288379,
       288736, 289092, 289449, 289805, 290162, 290518, 290874, 291230, 291586, 291943, 292298, 292654,
       293010, 293366, 293721, 294077, 294433, 294788, 295143, 295499, 295854, 296209, 296564, 296919,
       297274, 297629, 297984, 298338, 298693, 299047, 299402, 299756, 300111, 300465, 300819, 301173,
       301527, 301881, 302235, 302589, 302942, 303296, 303650, 304003, 304357, 304710, 305063, 305416,
       305770, 306123, 306476, 306828, 307181, 307534, 307887, 308239, 308592, 308944, 309297, 309649,
       310001, 310353, 310705, 311057, 311409, 311761, 312113, 312464, 312816, 313167, 313519, 313870,
       314221, 314573, 314924, 315275, 315626, 315977, 316327, 316678, 317029, 317379, 317730, 318080,
       318431, 318781, 319131, 319481, 319831, 320181, 320531, 320881, 321231, 321580, 321930, 322279,
       322629, 322978, 323327, 323676, 324025, 324374, 324723, 325072, 325421, 325770, 326118, 326467,
       326815, 327164, 327512, 327860, 328208, 328556, 328904, 329252, 329600, 329947, 330295, 330643,
       330990, 331338, 331685, 332032, 332379, 332726, 333073, 333420, 333767, 334114, 334460, 334807,
       335153, 335500, 335846, 336192, 336539, 336885, 337231, 337577, 337922, 338268, 338614, 338959,
       339305, 339650, 339996, 340341, 340686, 341031, 341376, 341721, 342066, 342411, 342755, 343100,
       343444, 343789, 344133, 344477, 344822, 345166, 345510, 345854, 346197, 346541, 346885, 347228,
       347572, 347915, 348259, 348602, 348945, 349288, 349631
    >>

\* the put value of lines 39-43 at b = 0, for v = 0.010, 0.011, .. 1.000
PutValuesCarry0 ==
    <<
       3795, 4174, 4554, 4933, 5313, 5692, 6072, 6451, 6831, 7210, 7590, 7969,
       8349, 8728, 9107, 9487, 9866, 10246, 10625, 11005, 11384, 11764, 12143, 12522,
       12902, 13281, 13661, 14040, 14420, 14799, 15178, 15558, 15937, 16317, 16696, 17075,
       17455, 17834, 18214, 18593, 18972, 19352, 19731, 20110, 20490, 20869, 21248, 21628,
       22007, 22386, 22766, 23145, 23524, 23904, 24283, 24662, 25042, 25421, 25800, 26179,
       26559, 26938, 27317, 27696, 28076, 28455, 28834, 29213, 29592, 29972, 30351, 30730,
       31109, 31488, 31867, 32247, 32626, 33005, 33384, 33763, 34142, 34521, 34900, 35279,
       35659, 36038, 36417, 36796, 37175, 37554, 37933, 38312, 38691, 39070, 39449, 39828,
       40207, 40586, 40965, 41343, 41722, 42101, 42480, 42859, 43238, 43617, 43996, 44375,
       44753, 45132, 45511, 45890, 46269, 46647, 47026, 47405, 47784, 48162, 48541, 48920,
       49298, 49677, 50056, 50434, 50813, 51192, 51570, 51949, 52327, 52706, 53085, 53463,
       53842, 54220, 54599, 54977, 55356, 55734, 56113, 56491, 56870, 57248, 57626, 58005,
       58383, 58761, 59140, 59518, 59896, 60275, 60653, 61031, 61410, 61788, 62166, 62544,
       62922, 63301, 63679, 64057, 64435, 64813, 65191, 65569, 65947, 66325, 66703, 67081,
       67459, 67837, 68215, 68593, 68971, 69349, 69727, 70105, 70483, 70861, 71238, 71616,
       71994, 72372, 72749, 73127, 73505, 73883, 74260, 74638, 75016, 75393, 75771, 76148,
       76526, 76904, 77281, 77659, 78036, 78414, 78791, 79168, 79546, 79923, 80301, 80678,
       81055, 81433, 81810, 82187, 82564, 82942, 83319, 83696, 84073, 84450, 84827, 85205,
       85582, 85959, 86336, 86713, 87090, 87467, 87844, 88221, 88597, 88974, 89351, 89728,
       90105, 90482, 90858, 91235, 91612, 91989, 92365, 92742, 93119, 93495, 93872, 94248,
       94625, 95001, 95378, 95754, 96131, 96507, 96884, 97260, 97636, 98013, 98389, 98765,
       99142, 99518, 99894, 100270, 100646, 101023, 101399, 101775, 102151, 102527, 102903, 103279,
       103655, 104031, 104407, 104782, 105158, 105534, 105910, 106286, 106661, 107037, 107413, 107788,
       108164, 108540, 108915, 109291, 109666, 110042, 110417, 110793, 111168, 111544, 111919, 112294,
       112670, 113045, 113420, 113795, 114171, 114546, 114921, 115296, 115671, 116046, 116421, 116796,
       117171, 117546, 117921, 118296, 118671, 119046, 119420, 119795, 120170, 120545, 120919, 121294,
       121669, 122043, 122418, 122792, 123167, 123541, 123916, 124290, 124664, 125039, 125413, 125787,
       126162, 126536, 126910, 127284, 127658, 128032, 128406, 128780, 129154, 129528, 129902, 130276,
       130650, 131024, 131398, 131771, 132145, 132519, 132893, 133266, 133640, 134013, 134387, 134760,
       135134, 135507, 135881, 136254, 136627, 137001, 137374, 137747, 138120, 138494, 138867, 139240,
       139613, 139986, 140359, 140732, 141105, 141478, 141851, 142223, 142596, 142969, 143342, 143714,
       144087, 144460, 144832, 145205, 145577, 145950, 146322, 146694, 147067, 147439, 147811, 148184,
       148556, 148928, 149300, 149672, 150044, 150416, 150788, 151160, 151532, 151904, 152276, 152648,
       153019, 153391, 153763, 154135, 154506, 154878, 155249, 155621, 155992, 156364, 156735, 157106,
       157478, 157849, 158220, 158591, 158963, 159334, 159705, 160076, 160447, 160818, 161189, 161560,
       161930, 162301, 162672, 163043, 163413, 163784, 164155, 164525, 164896, 165266, 165636, 166007,
       166377, 166748, 167118, 167488, 167858, 168228, 168598, 168969, 169339, 169709, 170078, 170448,
       170818, 171188, 171558, 171928, 172297, 172667, 173036, 173406, 173776, 174145, 174514, 174884,
       175253, 175622, 175992, 176361, 176730, 177099, 177468, 177837, 178206, 178575, 178944, 179313,
       179682, 180051, 180419, 180788, 181157, 181525, 181894, 182262, 182631, 182999, 183368, 183736,
       184104, 184473, 184841, 185209, 185577, 185945, 186313, 186681, 187049, 187417, 187785, 188153,
       188520, 188888, 189256, 189623, 189991, 190358, 190726, 191093, 191461, 191828, 192195, 192562,
       192930, 193297, 193664, 194031, 194398, 194765, 195132, 195498, 195865, 196232, 196599, 196965,
       197332, 197699, 198065, 198432, 198798, 199164, 199531, 199897, 200263, 200629, 200995, 201362,
       201728, 202094, 202459, 202825, 203191, 203557, 203923, 204288, 204654, 205020, 205385, 205751,
       206116, 206481, 206847, 207212, 207577, 207942, 208307, 208673, 209038, 209403, 209767, 210132,
       210497, 210862, 211227, 211591, 211956, 212321, 212685, 213049, 213414, 213778, 214143, 214507,
       214871, 215235, 215599, 215963, 216327, 216691, 217055, 217419, 217783, 218146, 218510, 218874,
       219237, 219601, 219964, 220328, 220691, 221054, 221418, 221781, 222144, 222507, 222870, 223233,
       223596, 223959, 224322, 224684, 225047, 225410, 225772, 226135, 226497, 226860, 227222, 227585,
       227947, 228309, 228671, 229033, 229395, 229757, 230119, 230481, 230843, 231205, 231566, 231928,
       232290, 232651, 233013, 233374, 233735, 234097, 234458, 234819, 235180, 235541, 235903, 236263,
       236624, 236985, 237346, 237707, 238068, 238428, 238789, 239149, 239510, 239870, 240230, 240591,
       240951, 241311, 241671, 242031, 242391, 242751, 243111, 243471, 243831, 244190, 244550, 244910,
       245269, 245629, 245988, 246347, 246707, 247066, 247425, 247784, 248143, 248502, 248861, 249220,
       249579, 249937, 250296, 250655, 251013, 251372, 251730, 252089, 252447, 252805, 253164, 253522,
       253880, 254238, 254596, 254954, 255311, 255669, 256027, 256385, 256742, 257100, 257457, 257815,
       258172, 258529, 258886, 259244, 259601, 259958, 260315, 260672, 261028, 261385, 261742, 262099,
       262455, 262812, 263168, 263525, 263881, 264237, 264593, 264950, 265306, 265662, 266018, 266374,
       266729, 267085, 267441, 267797, 268152, 268508, 268863, 269218, 269574, 269929, 270284, 270639,
       270994, 271349, 271704, 272059, 272414, 272769, 273123, 273478, 273833, 274187, 274541, 274896,
       275250, 275604, 275958, 276313, 276667, 277021, 277374, 277728, 278082, 278436, 278789, 279143,
       279496, 279850, 280203, 280556, 280910, 281263, 281616, 281969, 282322, 282675, 283028, 283380,
       283733, 284086, 284438, 284791, 285143, 285495, 285848, 286200, 286552, 286904, 287256, 287608,
       287960, 288312, 288663, 289015, 289367, 289718, 290070, 290421, 290772, 291124, 291475, 291826,
       292177, 292528, 292879, 293230, 293580, 293931, 294282, 294632, 294983, 295333, 295683, 296034,
       296384, 296734, 297084, 297434, 297784, 298134, 298484, 298833, 299183, 299533, 299882, 300232,
       300581, 300930, 301279, 301629, 301978, 302327, 302676, 303024, 303373, 303722, 304071, 304419,
       304768, 305116, 305464, 305813, 306161, 306509, 306857, 307205, 307553, 307901, 308249, 308596,
       308944, 309292, 309639, 309986, 310334, 310681, 311028, 311375, 311722, 312069, 312416, 312763,
       313110, 313457, 313803, 314150, 314496, 314842, 315189, 315535, 315881, 316227, 316573, 316919,
       317265, 317611, 317957, 318302, 318648, 318993, 319339, 319684, 320029, 320375, 320720, 321065,
       321410, 321755, 322099, 322444, 322789, 323133, 323478, 323822, 324167, 324511, 324855, 325199,
       325543, 325887, 326231, 326575, 326919, 327262, 327606, 327950, 328293, 328636, 328980, 329323,
       329666, 330009, 330352, 330695, 331038, 331381, 331723, 332066, 332408, 332751, 333093, 333435,
       333778, 334120, 334462, 334804, 335146, 335487, 335829, 336171, 336512, 336854, 337195, 337537,
       337878, 338219, 338560, 338901, 339242, 339583, 339924, 340265, 340605, 340946, 341286, 341627,
       341967, 342307, 342647, 342988, 343328, 343668, 344007, 344347, 344687, 345026, 345366, 345705,
       346045, 346384, 346723, 347062, 347401, 347740, 348079, 348418, 348757, 349095, 349434, 349772,
       350111, 350449, 350787, 351126, 351464, 351802, 352139, 352477, 352815, 353153, 353490, 353828,
       354165, 354503, 354840, 355177, 355514, 355851, 356188, 356525, 356862, 357198, 357535, 357871,
       358208, 358544, 358880, 359217, 359553, 359889, 360225, 360561, 360896, 361232, 361568, 361903,
       362239, 362574, 362909, 363244, 363579, 363915, 364249
    >>

VolGrid == 10 .. 1000

PutValue(m, b, v) ==
    IF b = 5 THEN PutValuesCarry5[v - 9] ELSE PutValuesCarry0[v - 9]

GreekKeys == {"value", "delta", "gamma", "theta", "vega", "rho"}

NoneResult == [kind |-> "None", val |-> <<>>]

\* _generalized_black_scholes.  The "call" branch computes its Greeks and
\* falls off the end of the function: only the else branch returns.  The
\* Greeks other than value are kept as terms.
GeneralizedBlackScholes(option_type, m, b, v) ==
    IF option_type = "call" THEN NoneResult
    ELSE [kind |-> "dict",
          val |-> [value |-> PutValue(m, b, v),
                   delta |-> <<"delta", b, v>>,
                   gamma |-> <<"gamma", b, v>>,
                   theta |-> <<"theta", b, v>>,
                   vega |-> <<"vega / 100", b, v>>,
                   rho |-> <<"rho / 100", b, v>>]]

\* black_scholes
BlackScholes(option_type, m, v) ==
    GeneralizedBlackScholes(option_type, m, m.r, v)

\* black_scholes_merton
BlackScholesMerton(option_type, m, q, v) ==
    GeneralizedBlackScholes(option_type, m, m.r - q, v)

\* black_scholes_commodity
BlackScholesCommodity(option_type, m, v) ==
    GeneralizedBlackScholes(option_type, m, 0, v)

\* garman_kohlhagen
GarmanKohlhagen(option_type, m, rf, v) ==
    GeneralizedBlackScholes(option_type, m, m.r - rf, v)

Abs(n) == IF n < 0 THEN -n ELSE n

\* the sign of n; a product of two floats is tested through its sign
Sgn(n) == IF n < 0 THEN -1 ELSE IF n > 0 THEN 1 ELSE 0

\* obj of _implied_volatility: subscripting the None of a "call" raises
Obj(option_type, m, b, p, v) ==
    LET g == GeneralizedBlackScholes(option_type, m, b, v)
    IN  IF g.kind = "None" THEN [err |-> "TypeError", val |-> 0]
        ELSE [err |-> NoneValue, val |-> Abs(g.val.value - p)]

Answer(r, e) == [ret |-> r, err |-> e]

\* the loop of scipy.optimize.bisect: fa is f at the first bracket end
RECURSIVE BisectLoop(_, _, _, _, _, _, _, _, _)
BisectLoop(option_type, m, b, p, xa, dm, fa, xtol, iter) ==
    IF iter = 0 THEN Answer(xa, "RuntimeError")
    ELSE LET half == dm \div 2
             xm == xa + half
             fm == Obj(option_type, m, b, p, xm)
         IN  IF fm.val = 0 \/ Abs(half) < xtol THEN Answer(xm, NoneValue)
             ELSE BisectLoop(option_type, m, b, p,
                             IF Sgn(fm.val) * Sgn(fa) >= 0 THEN xm ELSE xa,
                             half, fa, xtol, iter - 1)

\* scipy.optimize.bisect(obj, a, b, xtol=xtol, maxiter=maxiter): the ends
\* are tried first, and it refuses a bracket whose ends have one sign
Bisect(option_type, m, b, p, xa, xb, xtol, maxiter) ==
    LET fa == Obj(option_type, m, b, p, xa)
        fb == Obj(option_type, m, b, p, xb)
    IN  IF xtol <= 0 \/ maxiter < 1 THEN Answer(0, "ValueError")
        ELSE IF fa.err # NoneValue THEN Answer(0, fa.err)
        ELSE IF fa.val = 0 THEN Answer(xa, NoneValue)
        ELSE IF fb.val = 0 THEN Answer(xb, NoneValue)
        ELSE IF Sgn(fa.val) * Sgn(fb.val) > 0 THEN Answer(0, "ValueError")
        ELSE BisectLoop(option_type, m, b, p, xa, xb - xa, fa.val, xtol, maxiter)

SolverArgs(iter, lo, hi, tol) ==
    [max_iter |-> iter, min_volatility |-> lo, max_volatility |-> hi, xtol |-> tol]

\* _implied_volatility; received is what the solver was called with
ImpliedVolatility(option_type, max_iter, min_volatility, max_volatility, xtol, p, m, b) ==
    LET found == Bisect(option_type, m, b, p, min_volatility, max_volatility,
                        xtol, max_iter)
    IN  [kind |-> "float", val |-> found.ret, err |-> found.err,
         received |-> SolverArgs(max_iter, min_volatility, max_volatility, xtol)]

\* implied_volatility_stock
ImpliedVolatilityStock(option_type, max_iter, min_volatility, max_volatility, xtol, p, m, q) ==
    LET b == m.r - q
    IN  ImpliedVolatility(option_type, 500, 10, 1000, 1, p, m, b)

\* implied_volatility_commodity
ImpliedVolatilityCommodity(option_type, max_iter, min_volatility, max_volatility, xtol, p, m) ==
    ImpliedVolatility(option_type, 500, 10, 1000, 1, p, m, 0)

(***************************************************************************)
(* SpecGBS: calls of the pricing functions and of the implied-volatility   *)
(* functions; call records the function called, its arguments and what it  *)
(* returned or raised.                                                     *)
(***************************************************************************)
OptionTypes == {"call", "put"}

\* volatilities 0.1, 0.2, 0.5 and 0.9
Vols == {100, 200, 500, 900}

\* dividend yields and foreign rates 0 and 0.05
Yields == {0, 5}

Carries == {Market.r - q : q \in Yields}

\* the prices the formula gives at Vols, and one it never gives
Prices == {PutValue(Market, b, v) : b \in Carries, v \in Vols} \cup {1}

\* what a caller passes for max_iter, min_volatility, max_volatility, xtol:
\* the defaults, or 50, 0.1, 0.6, 0.005
SolverChoices == {SolverArgs(500, 10, 1000, 1), SolverArgs(50, 100, 600, 5)}

DoGeneralizedBlackScholes ==
    \E ot \in OptionTypes, b \in Carries, v \in Vols :
        /\ call' = [op |-> "_generalized_black_scholes",
                    args |-> [option_type |-> ot, b |-> b, v |-> v],
                    out |-> GeneralizedBlackScholes(ot, Market, b, v)]
        /\ UNCHANGED <<heap, last, net, cmp>>

DoBlackScholes ==
    \E ot \in OptionTypes, v \in Vols :
        /\ call' = [op |-> "black_scholes",
                    args |-> [option_type |-> ot, v |-> v],
                    out |-> BlackScholes(ot, Market, v)]
        /\ UNCHANGED <<heap, last, net, cmp>>

DoBlackScholesMerton ==
    \E ot \in OptionTypes, q \in Yields, v \in Vols :
        /\ call' = [op |-> "black_scholes_merton",
                    args |-> [option_type |-> ot, q |-> q, v |-> v],
                    out |-> BlackScholesMerton(ot, Market, q, v)]
        /\ UNCHANGED <<heap, last, net, cmp>>

DoBlackScholesCommodity ==
    \E ot \in OptionTypes, v \in Vols :
        /\ call' = [op |-> "black_scholes_commodity",
                    args |-> [option_type |-> ot, v |-> v],
                    out |-> BlackScholesCommodity(ot, Market, v)]
        /\ UNCHANGED <<heap, last, net, cmp>>

DoGarmanKohlhagen ==
    \E ot \in OptionTypes, rf \in Yields, v \in Vols :
        /\ call' = [op |-> "garman_kohlhagen",
                    args |-> [option_type |-> ot, rf |-> rf, v |-> v],
                    out |-> GarmanKohlhagen(ot, Market, rf, v)]
        /\ UNCHANGED <<heap, last, net, cmp>>

DoImpliedVolatility ==
    \E ot \in OptionTypes, c \in SolverChoices, p \in Prices, b \in Carries :
        /\ call' = [op |-> "_implied_volatility",
                    args |-> [option_type |-> ot, solver |-> c, p |-> p, b |-> b],
                    out |-> ImpliedVolatility(ot, c.max_iter, c.min_volatility,
                                 c.max_volatility, c.xtol, p, Market, b)]
        /\ UNCHANGED <<heap, last, net, cmp>>

DoImpliedVolatilityStock ==
    \E ot \in OptionTypes, c \in SolverChoices, p \in Prices, q \in Yields :
        /\ call' = [op |-> "implied_volatility_stock",
                    args |-> [option_type |-> ot, solver |-> c, p |-> p, q |-> q],
                    out |-> ImpliedVolatilityStock(ot, c.max_iter, c.min_volatility,
                                      c.max_volatility, c.xtol, p, Market, q)]
        /\ UNCHANGED <<heap, last, net, cmp>>

DoImpliedVolatilityCommodity ==
    \E ot \in OptionTypes, c \in SolverChoices, p \in Prices :
        /\ call' = [op |-> "implied_volatility_commodity",
                    args |-> [option_type |-> ot, solver |-> c, p |-> p],
                    out |-> ImpliedVolatilityCommodity(ot, c.max_iter, c.min_volatility,
                                          c.max_volatility, c.xtol, p, Market)]
        /\ UNCHANGED <<heap, last, net, cmp>>

NextGBS ==
    \/ DoGeneralizedBlackScholes
    \/ DoBlackScholes
    \/ DoBlackScholesMerton
    \/ DoBlackScholesCommodity
    \/ DoGarmanKohlhagen
    \/ DoImpliedVolatility
    \/ DoImpliedVolatilityStock
    \/ DoImpliedVolatilityCommodity

SpecGBS == Init /\ [][NextGBS]_vars

(***************************************************************************)
(* Claims about the pricing engine (specification SpecGBS).                *)
(***************************************************************************)
PricingOps ==
    {"_generalized_black_scholes", "black_scholes", "black_scholes_merton",
     "black_scholes_commodity", "garman_kohlhagen"}

\* C3: every pricing entry point returns, for a call as for a put, a mapping
\* with exactly the keys value, delta, gamma, theta, vega, rho, never None.
C3_PricingReturnsGreeks ==
    call.op \in PricingOps
    => /\ call.out.kind = "dict"
       /\ DOMAIN call.out.val = GreekKeys

\* C4: when p is the value the formula gives at a v0 strictly inside
\* (0.01, 1.0), the solver run with p on the bracket [0.01, 1.0] ends
\* without error and returns a volatility within xtol of v0.
C4_ImpliedVolatilityRoundTrip ==
    call.op = "_implied_volatility"
    => \A v0 \in VolGrid :
         LET a == call.args
             g == GeneralizedBlackScholes(a.option_type, Market, a.b, v0)
         IN  (/\ a.solver.min_volatility = 10
              /\ a.solver.max_volatility = 1000
              /\ 10 < v0 /\ v0 < 1000
              /\ g.kind = "dict"
              /\ g.val.value = a.p)
             => /\ call.out.err = NoneValue
                /\ Abs(call.out.val - v0) <= a.solver.xtol

\* C8: the solver receives the max_iter, min_volatility, max_volatility and
\* xtol the caller passed to implied_volatility_stock / _commodity.
C8_WrapperForwardsSolverArgs ==
    call.op \in {"implied_volatility_stock", "implied_volatility_commodity"}
    => call.out.received = call.args.solver
====
